---------------------------- MODULE Spec2Model ----------------------------
(***************************************************************************)
(* State-machine model of the drilldown dashboard: DashboardPage (level,   *)
(* selected parent code, indicator, year, browser history) and the         *)
(* KoreaDrilldownMap view it renders (tracked size, pan/zoom transform,    *)
(* the d3 zoom behaviour bound to the svg element).                        *)
(*                                                                         *)
(* Strings that the code inspects character by character (region codes,    *)
(* hash seeds) are sequences of one-character strings.  JavaScript values  *)
(* that may be null, a string or a number are tagged records.  Real        *)
(* numbers of the pan/zoom transform are exact rationals <<num, den>>.     *)
(***************************************************************************)
EXTENDS Integers, Sequences, FiniteSets, TLC

\* ------------------------------------------------------------ JS values
JNull == [t |-> "null"]
JStr(s) == [t |-> "str", v |-> s]
JNum(n) == [t |-> "num", v |-> n]

IsNullish(x) == x.t = "null"

\* a ?? b
Coalesce(a, b) == IF IsNullish(a) THEN b ELSE a

Digit(n) == CASE n = 0 -> "0" [] n = 1 -> "1" [] n = 2 -> "2" [] n = 3 -> "3"
              [] n = 4 -> "4" [] n = 5 -> "5" [] n = 6 -> "6" [] n = 7 -> "7"
              [] n = 8 -> "8" [] n = 9 -> "9"

RECURSIVE NatToChars(_)
NatToChars(n) == IF n < 10 THEN <<Digit(n)>>
                 ELSE NatToChars(n \div 10) \o <<Digit(n % 10)>>

\* String(x) for a non-null x: a string is itself, a number its decimal digits
JsString(x) == IF x.t = "num" THEN NatToChars(x.v) ELSE x.v

\* truthiness of a value that is null or a string (!x is its negation)
Truthy(x) == x.t = "str" /\ x.v # <<>>

RECURSIVE StartsWith(_, _)
StartsWith(s, prefix) ==
    IF prefix = <<>> THEN TRUE
    ELSE IF s = <<>> THEN FALSE
    ELSE Head(s) = Head(prefix) /\ StartsWith(Tail(s), Tail(prefix))

\* ------------------------------------------------------------ features
Feature(code, ctprvnCd, sigCd, emdCd) ==
    [code |-> code, CTPRVN_CD |-> ctprvnCd, SIG_CD |-> sigCd, EMD_CD |-> emdCd]

\* faulty variant of getFeatureCode: SIG_CD is tried before CTPRVN_CD
getFeatureCodeSigFirst(level, feature) ==
    JsString(Coalesce(feature.code,
             Coalesce(feature.SIG_CD,
             Coalesce(feature.CTPRVN_CD,
             Coalesce(feature.EMD_CD, JStr(<<>>))))))

getFeatureCode(level, feature) ==
    JsString(Coalesce(feature.code,
             Coalesce(feature.CTPRVN_CD,
             Coalesce(feature.SIG_CD,
             Coalesce(feature.EMD_CD, JStr(<<>>))))))

\* the page's own copy of getFeatureCode
pageGetFeatureCode(level, feature) ==
    JsString(Coalesce(feature.code,
             Coalesce(feature.CTPRVN_CD,
             Coalesce(feature.SIG_CD,
             Coalesce(feature.EMD_CD, JStr(<<>>))))))

\* the boundary provider's getFeatureCode, which takes no level
boundariesGetFeatureCode(feature) ==
    JsString(Coalesce(feature.code,
             Coalesce(feature.CTPRVN_CD,
             Coalesce(feature.SIG_CD,
             Coalesce(feature.EMD_CD, JStr(<<>>))))))

Levels == {"ctprvn", "sig", "emd"}

Tier(level) == CASE level = "ctprvn" -> 0 [] level = "sig" -> 1 [] level = "emd" -> 2

\* The three boundary files as loaded by the page.
Code11 == <<"1", "1">>
Code26 == <<"2", "6">>
Code11110 == <<"1", "1", "1", "1", "0">>
Code11140 == <<"1", "1", "1", "4", "0">>
Code26110 == <<"2", "6", "1", "1", "0">>
Code1111051 == <<"1", "1", "1", "1", "0", "5", "1">>
Code1111052 == <<"1", "1", "1", "1", "0", "5", "2">>
Code2611051 == <<"2", "6", "1", "1", "0", "5", "1">>

ctprvnJson == << Feature(JStr(Code11), JNull, JNull, JNull),
                 Feature(JNull, JNum(26), JNull, JNull),
                 Feature(JNull, JNull, JNull, JNull) >>

sigJson == << Feature(JStr(Code11110), JNull, JNull, JNull),
              Feature(JStr(Code11140), JNull, JNull, JNull),
              Feature(JNum(26110), JNull, JNull, JNull),
              Feature(JNull, JNull, JStr(Code11140), JNull) >>

emdJson == << Feature(JStr(Code1111051), JNull, JNull, JNull),
              Feature(JStr(Code1111052), JNull, JNull, JNull),
              Feature(JStr(Code2611051), JNull, JNull, JNull) >>


\* ------------------------------------------------------ generateDummyStats
CharCode(c) ==
    CASE c = "-" -> 45
      [] c = "0" -> 48 [] c = "1" -> 49 [] c = "2" -> 50 [] c = "3" -> 51
      [] c = "4" -> 52 [] c = "5" -> 53 [] c = "6" -> 54 [] c = "7" -> 55
      [] c = "8" -> 56 [] c = "9" -> 57
      [] c = "b" -> 98 [] c = "d" -> 100 [] c = "e" -> 101 [] c = "i" -> 105
      [] c = "k" -> 107 [] c = "n" -> 110 [] c = "r" -> 114 [] c = "s" -> 115
      [] c = "u" -> 117

\* hash = (hash * 31 + charCode) >>> 0 on an unsigned 32-bit value kept as two
\* 16-bit halves <<hi, lo>>
HashStep(hash, c) ==
    LET lo31 == hash[2] * 31 + CharCode(c)
        hi31 == hash[1] * 31 + (lo31 \div 65536)
    IN  << hi31 % 65536, lo31 % 65536 >>

RECURSIVE HashFrom(_, _)
HashFrom(hash, seed) ==
    IF seed = <<>> THEN hash ELSE HashFrom(HashStep(hash, Head(seed)), Tail(seed))

\* hash % 101, with 65536 % 101 = 88
DummyValue(seed) ==
    LET hash == HashFrom(<<0, 0>>, seed)
    IN  ((hash[1] % 101) * 88 + (hash[2] % 101)) % 101


\* ----------------------------------------------------------- dashboard
IndicatorKeys == {"risk", "burden"}

IndicatorChars(key) ==
    CASE key = "risk" -> <<"r", "i", "s", "k">>
      [] key = "burden" -> <<"b", "u", "r", "d", "e", "n">>

Years == {2023, 2024}

DefaultIndicator == "risk"
DefaultYear == 2024

\* `${indicatorKey}-${year}`
Salt(ind, yr) == IndicatorChars(ind) \o <<"-">> \o NatToChars(yr)

\* The values generateDummyStats computes, tabulated once for every code of
\* the boundary files and every salt the page can pass.
DataCodes ==
    { getFeatureCode("ctprvn", ctprvnJson[i]) : i \in 1..Len(ctprvnJson) } \cup
    { getFeatureCode("sig", sigJson[i]) : i \in 1..Len(sigJson) } \cup
    { getFeatureCode("emd", emdJson[i]) : i \in 1..Len(emdJson) }

Salts == { Salt(ind, yr) : ind \in IndicatorKeys, yr \in Years }

DummyValues ==
    [code \in DataCodes, salt \in Salts |-> DummyValue(code \o <<"-">> \o salt)]

generateDummyStats(codes, salt) ==
    [i \in 1..Len(codes) |-> [code |-> codes[i], value |-> DummyValues[codes[i], salt]]]

VARIABLES level, selectedCode, indicatorKey, year,
          ctprvnGeo, sigGeo, emdGeo, stats,
          history, histIdx,
          event, emitted

dashVars == <<level, selectedCode, indicatorKey, year, ctprvnGeo, sigGeo, emdGeo,
              stats, history, histIdx, event, emitted>>

Geo(json) == [t |-> "geo", features |-> json]

\* geo?.features ?? []
GeoFeatures(geo) == IF IsNullish(geo) THEN <<>> ELSE geo.features

\* String(f.properties?.code ?? "").startsWith(selectedCode)
\* faulty variant of CodePropStartsWith: no filter on the selected code
CodePropAny(f, sel) == TRUE

CodePropStartsWith(f, sel) == StartsWith(JsString(Coalesce(f.code, JStr(<<>>))), sel.v)

currentFeatures(lv, sel, cg, sg, eg) ==
    IF lv = "ctprvn" THEN GeoFeatures(cg)
    ELSE IF lv = "sig"
         THEN IF ~Truthy(sel) THEN <<>>
              ELSE SelectSeq(GeoFeatures(sg), LAMBDA f : CodePropStartsWith(f, sel))
    ELSE IF ~Truthy(sel) THEN <<>>
         ELSE SelectSeq(GeoFeatures(eg), LAMBDA f : CodePropStartsWith(f, sel))

Features == currentFeatures(level, selectedCode, ctprvnGeo, sigGeo, emdGeo)

MapSeq(f(_), s) == [i \in 1..Len(s) |-> f(s[i])]

\* the stats effect: codes of the current features, empty codes dropped
StatsFor(lv, feats, ind, yr) ==
    LET codes == SelectSeq(MapSeq(LAMBDA f : getFeatureCode(lv, f), feats),
                           LAMBDA c : c # <<>>)
    IN  generateDummyStats(codes, Salt(ind, yr))

\* the query string written by the pushState effect
UrlOf(lv, sel, ind, yr) ==
    [level |-> JStr(lv),
     code |-> IF Truthy(sel) THEN sel ELSE JNull,
     indicator |-> JStr(ind),
     year |-> JStr(NatToChars(yr))]

PlainUrl == [level |-> JNull, code |-> JNull, indicator |-> JNull, year |-> JNull]

\* -------------------------------------------------------------- rationals
RECURSIVE Gcd(_, _)
Gcd(a, b) == IF b = 0 THEN a ELSE Gcd(b, a % b)

Abs(n) == IF n < 0 THEN -n ELSE n

\* the fraction n/d in lowest terms with a positive denominator
Rat(n, d) ==
    LET g == Gcd(Abs(n), Abs(d))
        sgn == IF d < 0 THEN -1 ELSE 1
    IN  << sgn * (n \div g), sgn * (d \div g) >>

RInt(n) == <<n, 1>>

RMul(a, b) ==
    LET g1 == Gcd(Abs(a[1]), b[2])
        g2 == Gcd(Abs(b[1]), a[2])
    IN  Rat((a[1] \div g1) * (b[1] \div g2), (a[2] \div g2) * (b[2] \div g1))

RDiv(a, b) == RMul(a, Rat(b[2], b[1]))

RAdd(a, b) ==
    LET g == Gcd(a[2], b[2])
    IN  Rat(a[1] * (b[2] \div g) + b[1] * (a[2] \div g), (a[2] \div g) * b[2])

RSub(a, b) == RAdd(a, <<-b[1], b[2]>>)

RLe(a, b) == a[1] * b[2] <= b[1] * a[2]

RMax(a, b) == IF RLe(a, b) THEN b ELSE a

RMin(a, b) == IF RLe(a, b) THEN a ELSE b

\* ------------------------------------------------------------- map view
MIN_SIZE == 50

\* d3.zoomIdentity
Transform(x, y, k) == [t |-> "transform", x |-> x, y |-> y, k |-> k]

zoomIdentity == Transform(RInt(0), RInt(0), RInt(1))

\* scaleExtent([1, 5]) and the literals of handleZoom / onWheel
ScaleMin == RInt(1)
ScaleMax == RInt(5)

VARIABLES width, height, zoomState, zoomRef, d3Zoom, zoomOps

mapVars == <<width, height, zoomState, zoomRef, d3Zoom, zoomOps>>

\* hover state of the map view (useState, null at mount) and the props of the
\* renders of the map view made by the page while handling the last event
VARIABLES tooltip, hoveredCode, renders

viewVars == <<tooltip, hoveredCode, renders>>

vars == <<dashVars, mapVars, viewVars>>

\* the d3 zoom behaviour is bound to the svg element now in the document:
\* selection.call(zoom) gives the element its own transform (__zoom)
ZoomBound == ~IsNullish(d3Zoom)

\* faulty variant of projection: the feature list is not looked at
projectionAnyFeatures(w, h, feats) ==
    IF w < MIN_SIZE \/ h < MIN_SIZE THEN JNull
    ELSE [t |-> "projection", fitSize |-> <<w, h>>]

\* faulty variant of projection: the fit is recomputed for the current scale
projectionZoomed(w, h, feats) ==
    IF w < MIN_SIZE \/ h < MIN_SIZE \/ Len(feats) = 0 THEN JNull
    ELSE [t |-> "projection", fitSize |-> <<w * zoomState.k[1], h * zoomState.k[2]>>]

\* projection: null without a usable size or without features, else the
\* identity projection fitted to [width, height]
projection(w, h, feats) ==
    IF w < MIN_SIZE \/ h < MIN_SIZE \/ Len(feats) = 0 THEN JNull
    ELSE [t |-> "projection", fitSize |-> <<w, h>>]

\* path: null without a projection, else d3.geoPath(projection)
path(w, h, feats) ==
    LET p == projection(w, h, feats)
    IN  IF IsNullish(p) THEN JNull ELSE [t |-> "path", projection |-> p]

\* width < MIN_SIZE || height < MIN_SIZE || !path: the placeholder is rendered
Placeholder(w, h, feats) ==
    w < MIN_SIZE \/ h < MIN_SIZE \/ IsNullish(path(w, h, feats))

\* the svg with the region shapes is rendered instead of the placeholder
SvgRendered(w, h, feats) == ~Placeholder(w, h, feats)

Rendered == SvgRendered(width, height, Features)

\* The zoom effect returns no cleanup and nothing calls selection.on(".zoom",
\* null): once a behaviour was bound (zoomRef.current set), the listeners stay
\* installed on the svg element it was bound to, also when that element is
\* taken out of the document for the placeholder.
ZoomListenersOrphaned == zoomRef /\ ~Rendered

\* ------------------------------------------------------------- bounds
MaxHistory == 4
MaxZoomOps == 3

\* ------------------------------------------------- render and effects
\* The zoom effect (deps [width, height]) after a render with tracked size
\* (w, h) and feature list feats.  The svg element exists only while the
\* shapes are rendered; an element created by this render carries no d3
\* transform and no d3 listeners until the effect binds the behaviour to it.
ZoomEffectRuns(w, h) == w # width \/ h # height

\* faulty variant of MapCommit: the view is mounted anew when the svg replaces
\* the placeholder, so its hover state starts again from null
MapCommitRemount(w, h, feats) ==
    LET was == Rendered
        now == SvgRendered(w, h, feats)
        runs == ZoomEffectRuns(w, h)
    IN  /\ width' = w
        /\ height' = h
        /\ zoomRef' = (zoomRef \/ (now /\ runs))
        /\ d3Zoom' = IF ~now THEN JNull
                     ELSE IF was /\ ~IsNullish(d3Zoom) THEN d3Zoom
                     ELSE IF runs THEN zoomIdentity
                     ELSE JNull
        /\ tooltip' = IF now /\ ~was THEN JNull ELSE tooltip
        /\ hoveredCode' = IF now /\ ~was THEN JNull ELSE hoveredCode

MapCommit(w, h, feats) ==
    LET was == Rendered
        now == SvgRendered(w, h, feats)
        runs == ZoomEffectRuns(w, h)
    IN  /\ width' = w
        /\ height' = h
        /\ zoomRef' = (zoomRef \/ (now /\ runs))
        /\ d3Zoom' = IF ~now THEN JNull
                     ELSE IF was /\ ~IsNullish(d3Zoom) THEN d3Zoom
                     ELSE IF runs THEN zoomIdentity
                     ELSE JNull
        /\ UNCHANGED <<tooltip, hoveredCode>>

\* the props a render of the page passes to the map view: level, the codes of
\* features and the codes of stats
RenderProps(lv, feats, st) ==
    [level |-> lv,
     features |-> MapSeq(LAMBDA f : getFeatureCode(lv, f), feats),
     stats |-> MapSeq(LAMBDA x : x.code, st)]

\* A render of the page with the given state, followed by its effects: the
\* stats effect, the pushState effect (when one of its deps changed) and the
\* map view's own render for the new props.  The stats effect runs after the
\* render that shows the new features, so that render still passes the stats
\* of the state before; setStats then causes a second render.
DashCommit(idx, lv, sel, ind, yr, cg, sg, eg) ==
    LET feats == currentFeatures(lv, sel, cg, sg, eg)
        changed == <<lv, sel, ind, yr>> # <<level, selectedCode, indicatorKey, year>>
        rerender == changed \/ <<cg, sg, eg>> # <<ctprvnGeo, sigGeo, emdGeo>>
        nextStats == StatsFor(lv, feats, ind, yr)
    IN  /\ changed => idx < MaxHistory
        /\ level' = lv
        /\ selectedCode' = sel
        /\ indicatorKey' = ind
        /\ year' = yr
        /\ ctprvnGeo' = cg
        /\ sigGeo' = sg
        /\ emdGeo' = eg
        /\ stats' = nextStats
        /\ renders' = IF rerender
                      THEN << RenderProps(lv, feats, stats), RenderProps(lv, feats, nextStats) >>
                      ELSE <<>>
        /\ history' = IF changed THEN SubSeq(history, 1, idx) \o <<UrlOf(lv, sel, ind, yr)>>
                      ELSE history
        /\ histIdx' = IF changed THEN idx + 1 ELSE idx
        /\ MapCommit(width, height, feats)

\* ------------------------------------------------------------- Init
InitialUrls ==
    { PlainUrl,
      [level |-> JStr("sig"), code |-> JNull, indicator |-> JNull, year |-> JNull],
      [level |-> JStr("emd"), code |-> JStr(Code11110),
       indicator |-> JStr("burden"), year |-> JStr(NatToChars(2023))] }

Init ==
    /\ level = "ctprvn"
    /\ selectedCode = JNull
    /\ indicatorKey = DefaultIndicator
    /\ year = DefaultYear
    /\ ctprvnGeo = JNull
    /\ sigGeo = JNull
    /\ emdGeo = JNull
    /\ stats = <<>>
    /\ \E u \in InitialUrls :
          history = <<u, UrlOf("ctprvn", JNull, DefaultIndicator, DefaultYear)>>
    /\ histIdx = 2
    /\ event = [type |-> "mount"]
    /\ emitted = <<>>
    /\ width = 0
    /\ height = 0
    /\ zoomState = zoomIdentity
    /\ zoomRef = FALSE
    /\ d3Zoom = JNull
    /\ zoomOps = 0
    /\ tooltip = JNull
    /\ hoveredCode = JNull
    /\ renders = <<>>

\* ---------------------------------------------------- dashboard actions
\* the load effect: the three files arrive and are stored in one batch
LoadGeo ==
    /\ IsNullish(ctprvnGeo)
    /\ DashCommit(histIdx, level, selectedCode, indicatorKey, year,
                  Geo(ctprvnJson), Geo(sigJson), Geo(emdJson))
    /\ event' = [type |-> "load"]
    /\ emitted' = <<>>
    /\ UNCHANGED <<zoomState, zoomOps>>

\* faulty variant of handleClick: the two target levels are exchanged
handleClickSwapped(lv, feature) ==
    LET code == getFeatureCode(lv, feature)
    IN  IF code = <<>> THEN <<>>
        ELSE IF lv = "ctprvn" THEN << [level |-> "emd", code |-> code] >>
        ELSE IF lv = "sig" THEN << [level |-> "sig", code |-> code] >>
        ELSE <<>>

\* the onSelect calls made by a click on a feature
handleClick(lv, feature) ==
    LET code == getFeatureCode(lv, feature)
    IN  IF code = <<>> THEN <<>>
        ELSE IF lv = "ctprvn" THEN << [level |-> "sig", code |-> code] >>
        ELSE IF lv = "sig" THEN << [level |-> "emd", code |-> code] >>
        ELSE <<>>

\* handleSelect for each emitted call (at most one), then render and effects
Selected(calls) ==
    IF calls = <<>>
    THEN DashCommit(histIdx, level, selectedCode, indicatorKey, year,
                    ctprvnGeo, sigGeo, emdGeo)
    ELSE DashCommit(histIdx, calls[1].level, JStr(calls[1].code), indicatorKey, year,
                    ctprvnGeo, sigGeo, emdGeo)

ClickRegion ==
    /\ Rendered
    /\ \E i \in 1..Len(Features) :
          LET calls == handleClick(level, Features[i])
          IN  /\ Selected(calls)
              /\ event' = [type |-> "click", level |-> level, feature |-> Features[i]]
              /\ emitted' = calls
    /\ UNCHANGED <<zoomState, zoomOps>>

\* [...stats].sort((a, b) => b.value - a.value), a stable sort
RECURSIVE InsertDesc(_, _)
InsertDesc(sorted, item) ==
    IF sorted = <<>> THEN <<item>>
    ELSE IF Head(sorted).value >= item.value
         THEN <<Head(sorted)>> \o InsertDesc(Tail(sorted), item)
    ELSE <<item>> \o sorted

RECURSIVE SortDesc(_)
SortDesc(s) ==
    IF s = <<>> THEN <<>>
    ELSE InsertDesc(SortDesc(SubSeq(s, 1, Len(s) - 1)), s[Len(s)])

Reverse(s) == [i \in 1..Len(s) |-> s[Len(s) + 1 - i]]

Slice5(s) == SubSeq(s, 1, IF Len(s) < 5 THEN Len(s) ELSE 5)

sortedStats == SortDesc(stats)
top5 == Slice5(sortedStats)
bottom5 == Slice5(Reverse(sortedStats))

\* faulty variant of RankingDisabled: the ranking buttons are never disabled
RankingNeverDisabled(lv) == FALSE

\* disabled={level === "emd"} on the ranking buttons
RankingDisabled(lv) == lv = "emd"

\* onClick of a ranking entry: handleSelect(level === "ctprvn" ? "sig" : "emd", item.code)
rankingClick(lv, item) ==
    IF RankingDisabled(lv) THEN <<>>
    ELSE << [level |-> IF lv = "ctprvn" THEN "sig" ELSE "emd", code |-> item.code] >>

PressRanking ==
    /\ \E list \in {top5, bottom5} : \E i \in 1..Len(list) :
          LET calls == rankingClick(level, list[i])
          IN  /\ Selected(calls)
              /\ event' = [type |-> "rank", level |-> level, code |-> list[i].code]
              /\ emitted' = calls
    /\ UNCHANGED <<zoomState, zoomOps>>

\* handleBreadcrumb; the "sig" crumb is rendered only when level is not ctprvn
\* faulty variant of handleBreadcrumb: the root breadcrumb keeps the code
handleBreadcrumbKeepCode(nextLevel) ==
    LET lv1 == IF nextLevel = "ctprvn" THEN "ctprvn" ELSE level
        lv2 == IF nextLevel = "sig" /\ Truthy(selectedCode) THEN "sig" ELSE lv1
    IN  <<lv2, selectedCode>>

handleBreadcrumb(nextLevel) ==
    LET lv1 == IF nextLevel = "ctprvn" THEN "ctprvn" ELSE level
        sel1 == IF nextLevel = "ctprvn" THEN JNull ELSE selectedCode
        lv2 == IF nextLevel = "sig" /\ Truthy(selectedCode) THEN "sig" ELSE lv1
    IN  <<lv2, sel1>>

Breadcrumb ==
    /\ \E nextLevel \in {"ctprvn", "sig"} :
          /\ nextLevel = "sig" => level # "ctprvn"
          /\ LET r == handleBreadcrumb(nextLevel)
             IN  DashCommit(histIdx, r[1], r[2], indicatorKey, year, ctprvnGeo, sigGeo, emdGeo)
          /\ event' = [type |-> "breadcrumb", level |-> level, to |-> nextLevel]
    /\ emitted' = <<>>
    /\ UNCHANGED <<zoomState, zoomOps>>

GoRoot ==
    /\ DashCommit(histIdx, "ctprvn", JNull, indicatorKey, year, ctprvnGeo, sigGeo, emdGeo)
    /\ event' = [type |-> "goRoot", level |-> level]
    /\ emitted' = <<>>
    /\ UNCHANGED <<zoomState, zoomOps>>

\* faulty variant of handleGoUp: every press returns to the root
handleGoUpToRoot == <<"ctprvn", JNull>>

\* handleGoUp; the button is disabled at ctprvn
handleGoUp ==
    IF level = "emd" THEN <<"sig", selectedCode>>
    ELSE IF level = "sig" THEN <<"ctprvn", JNull>>
    ELSE <<level, selectedCode>>

GoUp ==
    /\ level # "ctprvn"
    /\ LET r == handleGoUp
       IN  DashCommit(histIdx, r[1], r[2], indicatorKey, year, ctprvnGeo, sigGeo, emdGeo)
    /\ event' = [type |-> "goUp", level |-> level]
    /\ emitted' = <<>>
    /\ UNCHANGED <<zoomState, zoomOps>>

\* faulty variant of SetIndicatorKey: the map view is remounted for the new
\* indicator, so its transform starts again from the identity
SetIndicatorKeyRemount ==
    /\ \E key \in IndicatorKeys \ {indicatorKey} :
          DashCommit(histIdx, level, selectedCode, key, year, ctprvnGeo, sigGeo, emdGeo)
    /\ event' = [type |-> "indicator", level |-> level]
    /\ emitted' = <<>>
    /\ zoomState' = zoomIdentity
    /\ UNCHANGED zoomOps

\* a press of the button of another indicator (the current one changes nothing)
SetIndicatorKey ==
    /\ \E key \in IndicatorKeys \ {indicatorKey} :
          DashCommit(histIdx, level, selectedCode, key, year, ctprvnGeo, sigGeo, emdGeo)
    /\ event' = [type |-> "indicator", level |-> level]
    /\ emitted' = <<>>
    /\ UNCHANGED <<zoomState, zoomOps>>

\* a press of the button of another year
SetYear ==
    /\ \E y \in Years \ {year} :
          DashCommit(histIdx, level, selectedCode, indicatorKey, y, ctprvnGeo, sigGeo, emdGeo)
    /\ event' = [type |-> "year", level |-> level]
    /\ emitted' = <<>>
    /\ UNCHANGED <<zoomState, zoomOps>>

\* ------------------------------------------------------------ popstate
RECURSIVE CharsToNat(_)
CharsToNat(s) ==
    IF s = <<>> THEN 0
    ELSE CharsToNat(SubSeq(s, 1, Len(s) - 1)) * 10 + (CharCode(s[Len(s)]) - 48)

\* params.get(name) || fallback, for a parameter that is absent (null) or a string;
\* level and indicator names are kept as whole strings, year and code as characters
ParamOr(param, fallback) ==
    IF IsNullish(param) THEN fallback ELSE IF param.v = "" THEN fallback ELSE param.v

CharsParamOr(param, fallback) ==
    IF IsNullish(param) THEN fallback ELSE IF param.v = <<>> THEN fallback ELSE param.v

\* the popstate handler, reading the URL of the entry the browser moved to
popstateHandler(url) ==
    LET nextLevel == ParamOr(url.level, "ctprvn")
        nextCode == url.code
        nextIndicator == ParamOr(url.indicator, DefaultIndicator)
        nextYear == CharsToNat(CharsParamOr(url.year, NatToChars(DefaultYear)))
    IN  << nextLevel,
           IF nextLevel = "ctprvn" THEN JNull ELSE nextCode,
           nextIndicator,
           nextYear >>

\* back / forward: the browser moves to entry j and fires popstate
Popstate ==
    /\ \E j \in {histIdx - 1, histIdx + 1} \cap 1..Len(history) :
          /\ LET r == popstateHandler(history[j])
             IN  DashCommit(j, r[1], r[2], r[3], r[4], ctprvnGeo, sigGeo, emdGeo)
          /\ event' = [type |-> "popstate", level |-> level, to |-> j]
    /\ emitted' = <<>>
    /\ UNCHANGED <<zoomState, zoomOps>>

\* ------------------------------------------------------- map actions
\* sizes the ResizeObserver reports for the container
Sizes == { <<0, 0>>, <<40, 600>>, <<800, 600>>, <<600, 400>> }

Resize ==
    /\ \E sz \in Sizes :
          /\ sz # <<width, height>>
          /\ MapCommit(sz[1], sz[2], Features)
          /\ event' = [type |-> "resize", level |-> level, placeholder |-> ~Rendered]
    /\ emitted' = <<>>
    /\ renders' = <<>>
    /\ UNCHANGED <<level, selectedCode, indicatorKey, year, ctprvnGeo, sigGeo, emdGeo,
                   stats, history, histIdx, zoomState, zoomOps>>

\* Math.max(1, Math.min(5, k))
ClampK(k) == RMax(ScaleMin, RMin(ScaleMax, k))

\* handleZoom: scale = direction === "in" ? 1.2 : 0.8
ZoomButtonScale(direction) == IF direction = "in" THEN Rat(12, 10) ELSE Rat(8, 10)

ZoomButtonK(k, direction) == ClampK(RMul(k, ZoomButtonScale(direction)))

\* d3.zoomIdentity.translate(zoomState.x, zoomState.y).scale(nextK)
handleZoomNext(z, direction) == Transform(z.x, z.y, ZoomButtonK(z.k, direction))

\* handleZoom is defined by the view; it returns early without an svg or
\* before the zoom effect has stored a behaviour in zoomRef
HandleZoom ==
    /\ zoomOps < MaxZoomOps
    /\ Rendered /\ zoomRef
    /\ \E direction \in {"in", "out"} :
          /\ zoomState' = handleZoomNext(zoomState, direction)
          /\ event' = [type |-> "zoom", level |-> level, direction |-> direction,
                       k0 |-> zoomState.k]
    /\ zoomOps' = zoomOps + 1
    /\ emitted' = <<>>
    /\ UNCHANGED <<level, selectedCode, indicatorKey, year, ctprvnGeo, sigGeo, emdGeo,
                   stats, history, histIdx, width, height, zoomRef, d3Zoom,
                   tooltip, hoveredCode>>
    /\ renders' = <<>>

\* onWheel: direction = e.deltaY > 0 ? 0.9 : 1.1
WheelScale(deltaY) == IF deltaY > 0 THEN Rat(9, 10) ELSE Rat(11, 10)

\* faulty variant of WheelK: the lower clamp Math.max(1, ...) is missing
WheelKNoFloor(k, deltaY) == RMin(ScaleMax, RMul(k, WheelScale(deltaY)))

WheelK(k, deltaY) == ClampK(RMul(k, WheelScale(deltaY)))

\* point - ((point - offset) / k) * nextK
Anchored(point, offset, k, nextK) ==
    RSub(RInt(point), RMul(RDiv(RSub(RInt(point), offset), k), nextK))

onWheelNext(z, point, deltaY) ==
    LET nextK == WheelK(z.k, deltaY)
    IN  Transform(Anchored(point[1], z.x, z.k, nextK),
                  Anchored(point[2], z.y, z.k, nextK),
                  nextK)

\* The d3 zoom behaviour's own wheel listener on the svg (deltaMode page:
\* k * 2^(-deltaY)), zooming the element's transform about the pointer.
D3WheelK(k, deltaY) == ClampK(RMul(k, IF deltaY > 0 THEN Rat(1, 2) ELSE Rat(2, 1)))

d3WheelNext(t, point, deltaY) ==
    LET k1 == D3WheelK(t.k, deltaY)
    IN  Transform(Anchored(point[1], t.x, t.k, k1),
                  Anchored(point[2], t.y, t.k, k1),
                  k1)

\* The behaviour's drag gesture: the element's transform moved by the pointer delta.
d3DragNext(t, delta) ==
    Transform(RAdd(t.x, RInt(delta[1])), RAdd(t.y, RInt(delta[2])), t.k)

\* pointer positions inside the svg, wheel deltas (one page up / down), drag deltas
Pointers == { <<100, 50>>, <<400, 300>> }
WheelDeltas == { -1, 1 }
DragDeltas == { <<30, -20>> }

\* A wheel event over the svg.  A bound d3 behaviour takes the event (and stops
\* its propagation, so onWheel does not run) when its scale changes, or while a
\* wheel gesture it started is still in progress; it ignores the event at the
\* limit of its scale extent.  Otherwise the view's onWheel handles the event.
Wheel ==
    /\ zoomOps < MaxZoomOps
    /\ Rendered
    /\ \E point \in Pointers, deltaY \in WheelDeltas, inGesture \in BOOLEAN :
          /\ inGesture => (event.type = "wheel" /\ event.by = "d3")
          /\ IF ZoomBound /\ (D3WheelK(d3Zoom.k, deltaY) # d3Zoom.k \/ inGesture)
             THEN /\ d3Zoom' = d3WheelNext(d3Zoom, point, deltaY)
                  /\ zoomState' = d3Zoom'
                  /\ event' = [type |-> "wheel", level |-> level, by |-> "d3",
                               point |-> point, deltaY |-> deltaY, k0 |-> zoomState.k]
             ELSE /\ d3Zoom' = d3Zoom
                  /\ zoomState' = onWheelNext(zoomState, point, deltaY)
                  /\ event' = [type |-> "wheel", level |-> level, by |-> "onWheel",
                               point |-> point, deltaY |-> deltaY, k0 |-> zoomState.k]
    /\ zoomOps' = zoomOps + 1
    /\ emitted' = <<>>
    /\ UNCHANGED <<level, selectedCode, indicatorKey, year, ctprvnGeo, sigGeo, emdGeo,
                   stats, history, histIdx, width, height, zoomRef,
                   tooltip, hoveredCode>>
    /\ renders' = <<>>

\* A drag over the svg: handled by the d3 behaviour when it is bound to the
\* element, whose zoom listener passes event.transform to applyTransform.
Drag ==
    /\ zoomOps < MaxZoomOps
    /\ Rendered
    /\ \E delta \in DragDeltas :
          /\ IF ZoomBound
             THEN /\ d3Zoom' = d3DragNext(d3Zoom, delta)
                  /\ zoomState' = d3Zoom'
             ELSE UNCHANGED <<d3Zoom, zoomState>>
          /\ event' = [type |-> "drag", level |-> level, delta |-> delta]
    /\ zoomOps' = zoomOps + 1
    /\ emitted' = <<>>
    /\ UNCHANGED <<level, selectedCode, indicatorKey, year, ctprvnGeo, sigGeo, emdGeo,
                   stats, history, histIdx, width, height, zoomRef,
                   tooltip, hoveredCode>>
    /\ renders' = <<>>

\* ----------------------------------------------------------- colour scale
\* Math.min(...values) / Math.max(...values) of a non-empty list
MinOf(S) == CHOOSE m \in S : \A x \in S : m <= x
MaxOf(S) == CHOOSE m \in S : \A x \in S : x <= m

StatValueSet(st) == { st[i].value : i \in 1..Len(st) }

\* faulty variant of ScaleDomain: an empty-width domain is not widened
ScaleDomainNotWidened(st) ==
    IF Len(st) > 0 THEN << MinOf(StatValueSet(st)), MaxOf(StatValueSet(st)) >>
    ELSE << 0, 100 >>

\* colorScale: min / max of the stats values (0 / 100 without stats), the
\* domain widened by one on both sides when min === max
ScaleDomain(st) ==
    LET min == IF Len(st) > 0 THEN MinOf(StatValueSet(st)) ELSE 0
        max == IF Len(st) > 0 THEN MaxOf(StatValueSet(st)) ELSE 100
    IN  IF min = max THEN << min - 1, max + 1 >> ELSE << min, max >>

\* d3.scaleSequential(...).domain([lo, hi]) applied to v: the scale is not
\* clamped, so t = (v - lo) / (hi - lo) whatever v is (0.5 on an empty domain)
ScaleT(domain, v) ==
    IF domain[1] = domain[2] THEN Rat(1, 2)
    ELSE Rat(v - domain[1], domain[2] - domain[1])

\* faulty variant of GradientParam: the gradient runs the other way
GradientParamReversed(t) == RSub(RInt(1), RMul(Rat(3, 4), t))

\* (t) => d3.interpolateBlues(0.25 + 0.75 * t): the argument given to the ramp
GradientParam(t) == RAdd(Rat(1, 4), RMul(Rat(3, 4), t))

\* d3.interpolateBlues: a ramp of blues over [0, 1], light to dark, which takes
\* an argument below 0 as 0 and above 1 as 1.  A colour of the ramp is
\* identified by its position on it.
interpolateBlues(u) == [t |-> "blues", at |-> RMax(RInt(0), RMin(RInt(1), u))]

colorScale(st, v) == interpolateBlues(GradientParam(ScaleT(ScaleDomain(st), v)))

\* theme.map.missing
MissingColor == [t |-> "hex", v |-> "#e2e8f0"]

\* statsMap.get(code): the value of the last entry with the code, or undefined
statsMapGet(st, code) ==
    LET hits == { i \in 1..Len(st) : st[i].code = code }
    IN  IF hits = {} THEN JNull ELSE JNum(st[MaxOf(hits)].value)

\* value = statsMap.get(code) ?? 0
FillValue(lv, st, feature) ==
    Coalesce(statsMapGet(st, getFeatureCode(lv, feature)), JNum(0)).v

\* fill = colorScale(value)
Fill(lv, st, feature) == colorScale(st, FillValue(lv, st, feature))

\* ------------------------------------------------------------- rank map
\* faulty variant of rankedMapGet: ranks are counted from the lowest value
rankedMapGetAscending(st, code) ==
    LET sorted == Reverse(SortDesc(st))
        hits == { i \in 1..Len(sorted) : sorted[i].code = code }
    IN  IF hits = {} THEN JNull ELSE JNum(MaxOf(hits))

\* rankedMap.get(code): new Map(sorted.map((item, idx) => [item.code, idx + 1])),
\* the last entry of a code winning
rankedMapGet(st, code) ==
    LET sorted == SortDesc(st)
        hits == { i \in 1..Len(sorted) : sorted[i].code = code }
    IN  IF hits = {} THEN JNull ELSE JNum(MaxOf(hits))

\* --------------------------------------------------------------- labels
\* showLabels = level === "ctprvn" || level === "sig" || level === "emd"
showLabels(lv) == lv = "ctprvn" \/ lv = "sig" \/ lv = "emd"

\* labelData: one label per feature, none without a path
labelData(lv, w, h, feats) ==
    IF IsNullish(path(w, h, feats)) THEN <<>>
    ELSE MapSeq(LAMBDA f : getFeatureCode(lv, f), feats)

\* the <text> elements inside the svg
LabelsShown ==
    /\ Rendered
    /\ showLabels(level)
    /\ Len(labelData(level, width, height, Features)) > 0

\* ---------------------------------------------------------------- hover
\* faulty variant of MouseLeave: only the tooltip is cleared
MouseLeaveTooltipOnly ==
    /\ Rendered
    /\ tooltip' = JNull
    /\ hoveredCode' = hoveredCode
    /\ event' = [type |-> "leave", level |-> level]
    /\ emitted' = <<>>
    /\ renders' = <<>>
    /\ UNCHANGED <<level, selectedCode, indicatorKey, year, ctprvnGeo, sigGeo, emdGeo,
                   stats, history, histIdx, mapVars>>

\* onMouseMove of a region shape: setTooltip({..., value, code}) and
\* setHoveredCode(code); the payload's screen position and name are left out
MouseMove ==
    /\ Rendered
    /\ \E i \in 1..Len(Features) :
          LET code == getFeatureCode(level, Features[i])
          IN  /\ tooltip' = [t |-> "tooltip", code |-> code,
                             value |-> FillValue(level, stats, Features[i])]
              /\ hoveredCode' = JStr(code)
              /\ event' = [type |-> "move", level |-> level, feature |-> Features[i],
                           from |-> hoveredCode]
    /\ emitted' = <<>>
    /\ renders' = <<>>
    /\ UNCHANGED <<level, selectedCode, indicatorKey, year, ctprvnGeo, sigGeo, emdGeo,
                   stats, history, histIdx, mapVars>>

\* onMouseLeave of a region shape: setTooltip(null) and setHoveredCode(null)
MouseLeave ==
    /\ Rendered
    /\ tooltip' = JNull
    /\ hoveredCode' = JNull
    /\ event' = [type |-> "leave", level |-> level]
    /\ emitted' = <<>>
    /\ renders' = <<>>
    /\ UNCHANGED <<level, selectedCode, indicatorKey, year, ctprvnGeo, sigGeo, emdGeo,
                   stats, history, histIdx, mapVars>>

\* ------------------------------------------------------ specifications
NavNext ==
    \/ LoadGeo
    \/ Resize
    \/ ClickRegion
    \/ PressRanking
    \/ Breadcrumb
    \/ GoRoot
    \/ GoUp
    \/ SetIndicatorKey
    \/ Popstate

SpecNav == Init /\ [][NavNext]_vars

ZoomNext ==
    \/ LoadGeo
    \/ Resize
    \/ SetIndicatorKey
    \/ SetYear
    \/ HandleZoom
    \/ Wheel
    \/ Drag

InitZoom == Init /\ history[1] = PlainUrl

SpecZoom == InitZoom /\ [][ZoomNext]_vars

\* The map view on its own: mounted by a page that has loaded the boundary
\* files and passes the top-tier features and a stats prop drawn from
\* StatSets; the view is then resized and hovered.
Code41 == <<"4", "1">>
StatCodes == { Code11, Code26, Code41 }
StatValues == { 0, 20, 80 }
MaxStats == 2

StatSets ==
    UNION { [1..n -> [code : StatCodes, value : StatValues]] : n \in 0..MaxStats }

InitMap ==
    /\ level = "ctprvn"
    /\ selectedCode = JNull
    /\ indicatorKey = DefaultIndicator
    /\ year = DefaultYear
    /\ ctprvnGeo = Geo(ctprvnJson)
    /\ sigGeo = Geo(sigJson)
    /\ emdGeo = Geo(emdJson)
    /\ stats \in StatSets
    /\ history = <<PlainUrl, UrlOf("ctprvn", JNull, DefaultIndicator, DefaultYear)>>
    /\ histIdx = 2
    /\ event = [type |-> "mount"]
    /\ emitted = <<>>
    /\ width = 0
    /\ height = 0
    /\ zoomState = zoomIdentity
    /\ zoomRef = FALSE
    /\ d3Zoom = JNull
    /\ zoomOps = 0
    /\ tooltip = JNull
    /\ hoveredCode = JNull
    /\ renders = <<>>

MapNext ==
    \/ Resize
    \/ MouseMove
    \/ MouseLeave

SpecMap == InitMap /\ [][MapNext]_vars

\* The page opened at its plain address: every history entry above the first
\* was pushed by the page itself.
InitPlain == Init /\ history[1] = PlainUrl

SpecOwnUrls == InitPlain /\ [][NavNext]_vars

\* The page with a pointer over the map: hover, clicks and indicator switches.
HoverNext ==
    \/ LoadGeo
    \/ Resize
    \/ MouseMove
    \/ MouseLeave
    \/ ClickRegion
    \/ SetIndicatorKey

SpecHover == InitPlain /\ [][HoverNext]_vars

\* ================================================================ claims
SelectEvents == {"click", "rank"}
BackEvents == {"breadcrumb", "goUp", "goRoot", "popstate"}

\* C1 (as stated): every change of level made by one event moves exactly one
\* tier; forward only by a click or ranking press, backward only by breadcrumb,
\* go-up, go-root or popstate.
C1_OneTierPerEvent ==
    [][ level' # level =>
          /\ Abs(Tier(level') - Tier(level)) = 1
          /\ Tier(level') > Tier(level) => event'.type \in SelectEvents
          /\ Tier(level') < Tier(level) => event'.type \in BackEvents ]_vars

\* C1 (amended): a click or ranking press moves exactly one tier deeper; go-up
\* moves exactly one tier up; go-root and the breadcrumbs only move up, to the
\* tier they name (from emd to ctprvn in one event); popstate sets the level
\* recorded in the restored URL, whatever its distance from the current one.
C1_LevelMoves ==
    [][ level' # level =>
          \/ /\ event'.type \in SelectEvents
             /\ Tier(level') = Tier(level) + 1
          \/ /\ event'.type = "goUp"
             /\ Tier(level') = Tier(level) - 1
          \/ /\ event'.type = "goRoot"
             /\ level' = "ctprvn"
          \/ /\ event'.type = "breadcrumb"
             /\ level' = event'.to
             /\ Tier(level') < Tier(level)
          \/ /\ event'.type = "popstate"
             /\ level' = ParamOr(history[event'.to].level, "ctprvn") ]_vars

\* go-root pressed at emd has taken the page to ctprvn, two tiers in one event
C1_Witness == event.type = "goRoot" /\ event.level = "emd" /\ level = "ctprvn"

\* C2: a click on a feature with non-empty code c invokes onSelect exactly once,
\* with (sig, c) at ctprvn and (emd, c) at sig; the emitted level is one tier
\* deeper than the level of the click and the emitted code is the feature's code.
C2_ClickEmitsNextTier ==
    (event.type = "click" /\ getFeatureCode(event.level, event.feature) # <<>>) =>
        LET c == getFeatureCode(event.level, event.feature)
        IN  /\ event.level = "ctprvn" => emitted = << [level |-> "sig", code |-> c] >>
            /\ event.level = "sig" => emitted = << [level |-> "emd", code |-> c] >>
            /\ \A i \in 1..Len(emitted) :
                  /\ Tier(emitted[i].level) = Tier(event.level) + 1
                  /\ emitted[i].code = c

\* a click at sig on a feature with a code has emitted its selection
C2_Witness ==
    /\ event.type = "click"
    /\ event.level = "sig"
    /\ getFeatureCode(event.level, event.feature) # <<>>
    /\ Len(emitted) = 1
    /\ level = "emd"

\* C3: at emd a click on a region and a press of a ranking entry emit no
\* selection and leave level and selectedCode unchanged.
C3_DeepestTierInert ==
    [][ (level = "emd" /\ event'.type \in SelectEvents) =>
          /\ emitted' = <<>>
          /\ level' = level
          /\ selectedCode' = selectedCode ]_vars

\* a ranking entry was pressed at emd
C3_Witness == event.type = "rank" /\ event.level = "emd" /\ level = "emd"

\* C4: no transition without a non-empty code: a click on a feature whose code
\* resolves to the empty string emits nothing, and at level sig or emd the
\* selected parent code is a non-empty string.
C4_NoTransitionWithoutCode ==
    /\ (event.type = "click" /\ getFeatureCode(event.level, event.feature) = <<>>)
          => emitted = <<>>
    /\ level \in {"sig", "emd"} => (selectedCode.t = "str" /\ selectedCode.v # <<>>)

\* C5: the scale of the transform applied to the region layer stays in [1, 5].
C5_ScaleInRange ==
    /\ zoomState.k[2] <= zoomState.k[1]
    /\ zoomState.k[1] <= 5 * zoomState.k[2]

\* repeated zoom-in input has driven the scale to the upper limit
C5_Witness == zoomState.k = RInt(5) /\ event.type = "wheel" /\ event.deltaY < 0

\* C6: a zoom-in step followed by the zoom-out step of the same channel (button
\* in then out, wheel up then down) returns the scale to its value before them.
C6_ZoomRoundTrip ==
    [][ /\ (event.type = "zoom" /\ event.direction = "in"
             /\ event'.type = "zoom" /\ event'.direction = "out")
             => zoomState'.k = event.k0
        /\ (event.type = "wheel" /\ event.deltaY < 0
             /\ event'.type = "wheel" /\ event'.deltaY > 0)
             => zoomState'.k = event.k0 ]_vars

\* the content point drawn at screen coordinate p under (offset, k) is drawn at
\* p again under (offset2, k2)
AnchorKept(p, offset, k, offset2, k2) ==
    RAdd(offset2, RMul(k2, RDiv(RSub(RInt(p), offset), k))) = RInt(p)

\* C7: after a wheel event at p the content point that was drawn at p is drawn
\* at p again under the new transform.
C7_WheelKeepsAnchor ==
    [][ event'.type = "wheel" =>
          /\ AnchorKept(event'.point[1], zoomState.x, zoomState.k,
                        zoomState'.x, zoomState'.k)
          /\ AnchorKept(event'.point[2], zoomState.y, zoomState.k,
                        zoomState'.y, zoomState'.k) ]_vars

\* C8: a drag gesture (taken by the bound zoom behaviour) moves (tx, ty) of the
\* transform applied to the region layer by the pointer delta and leaves its
\* scale as it was just before the drag.
C8_DragKeepsScale ==
    [][ (event'.type = "drag" /\ ZoomBound) =>
          /\ zoomState'.k = zoomState.k
          /\ zoomState'.x = RAdd(zoomState.x, RInt(event'.delta[1]))
          /\ zoomState'.y = RAdd(zoomState.y, RInt(event'.delta[2])) ]_vars

Degenerate(w, h) == w < MIN_SIZE \/ h < MIN_SIZE

\* C9: when the viewport becomes degenerate, and when the svg is attached again
\* after the placeholder, the transform is the identity.
C9_ResetOnDegenerate ==
    [][ ((~Degenerate(width, height) /\ Degenerate(width', height'))
          \/ (~Rendered /\ Rendered'))
          => zoomState' = zoomIdentity ]_vars

\* C10: a change of indicator or year alone leaves the transform unchanged.
C10_StatsChangeKeepsTransform ==
    [][ event'.type \in {"indicator", "year"} =>
          (zoomState' = zoomState /\ d3Zoom' = d3Zoom) ]_vars

\* indicator and year have both been switched under a zoomed, panned map
C10_Witness ==
    /\ event.type \in {"indicator", "year"}
    /\ indicatorKey # DefaultIndicator
    /\ year # DefaultYear
    /\ Rendered
    /\ zoomState # zoomIdentity

\* C11: the region shapes are rendered exactly when the tracked width and
\* height are at least 50 and the feature list is non-empty; in every other
\* state projection and path are null and the placeholder is rendered.
C11_ShapesIffUsable ==
    LET usable == width >= 50 /\ height >= 50 /\ Len(Features) > 0
        proj == projection(width, height, Features)
        pth == path(width, height, Features)
    IN  /\ usable => (~Placeholder(width, height, Features)
                        /\ ~IsNullish(proj) /\ ~IsNullish(pth))
        /\ ~usable => (Placeholder(width, height, Features)
                         /\ IsNullish(proj) /\ IsNullish(pth))

\* the container has a usable size but there are no features: placeholder
C11_Witness ==
    /\ event.type = "resize"
    /\ width >= MIN_SIZE /\ height >= MIN_SIZE
    /\ Len(Features) = 0
    /\ Placeholder(width, height, Features)

C13_UnmatchedFillNeutral ==
    Rendered =>
        \A i \in 1..Len(Features) :
            IsNullish(statsMapGet(stats, getFeatureCode(level, Features[i])))
                => Fill(level, stats, Features[i]) = MissingColor

\* values given to the colour scale, inside and outside of its domain
ScaleInputs == { 0, 10, 50, 90, 100 }

\* C14: for a value below the domain the scale returns the colour of lo, for a
\* value above it the colour of hi, and the argument given to the gradient
\* stays within the range it covers on the domain, [0.25, 1].
C14_ClampOutsideDomain ==
    LET d == ScaleDomain(stats)
        arg(v) == GradientParam(ScaleT(d, v))
    IN  \A v \in ScaleInputs :
            /\ v < d[1] => /\ colorScale(stats, v) = colorScale(stats, d[1])
                           /\ RLe(Rat(1, 4), arg(v))
            /\ v > d[2] => /\ colorScale(stats, v) = colorScale(stats, d[2])
                           /\ RLe(arg(v), RInt(1))

\* C15: the domain is [min, max] of the stats values when min < max and
\* [min - 1, max + 1] when min = max; its width is always positive.
C15_DomainPositiveWidth ==
    LET d == ScaleDomain(stats)
    IN  /\ d[1] < d[2]
        /\ Len(stats) > 0 =>
              \E a, b \in StatValueSet(stats) :
                  /\ \A x \in StatValueSet(stats) : a <= x /\ x <= b
                  /\ d = IF a < b THEN <<a, b>> ELSE <<a - 1, b + 1>>

\* a single-entry stats prop is rendered with the widened domain
C15_Witness ==
    /\ Rendered
    /\ Len(stats) = 1
    /\ stats[1].value = 80
    /\ ScaleDomain(stats) = <<79, 81>>

\* the two ends of the range of the ramp the scale uses, and its middle
LowEndColor == interpolateBlues(Rat(1, 4))
HighEndColor == interpolateBlues(RInt(1))
MidColor == interpolateBlues(Rat(5, 8))

\* C16 (as stated): for every stats prop with at least one entry the scale maps
\* min(values) to the lowest-end colour and max(values) to the highest-end one.
C16_EndpointColors ==
    Len(stats) > 0 =>
        /\ colorScale(stats, MinOf(StatValueSet(stats))) = LowEndColor
        /\ colorScale(stats, MaxOf(StatValueSet(stats))) = HighEndColor

\* C16 (amended): when min < max the scale maps min to the lowest-end colour
\* and max to the highest-end colour, and a rendered feature whose statistic
\* is max (min) is filled with that colour; when min = max the one value is
\* mapped to the colour in the middle of the range.
C16_EndpointColorsWhenDistinct ==
    Len(stats) > 0 =>
        LET min == MinOf(StatValueSet(stats))
            max == MaxOf(StatValueSet(stats))
        IN  IF min < max
            THEN /\ colorScale(stats, min) = LowEndColor
                 /\ colorScale(stats, max) = HighEndColor
                 /\ Rendered =>
                      \A i \in 1..Len(Features) :
                          LET hit == statsMapGet(stats, getFeatureCode(level, Features[i]))
                          IN  /\ hit = JNum(max) => Fill(level, stats, Features[i]) = HighEndColor
                              /\ hit = JNum(min) => Fill(level, stats, Features[i]) = LowEndColor
            ELSE colorScale(stats, min) = MidColor

\* features 11 and 26 rendered with stats {11: 80, 26: 20}
C16_Witness ==
    /\ Rendered
    /\ stats = << [code |-> Code11, value |-> 80], [code |-> Code26, value |-> 20] >>
    /\ Fill(level, stats, Features[1]) = HighEndColor
    /\ Fill(level, stats, Features[2]) = LowEndColor

\* C17: for stats with distinct codes the ranks are exactly 1..n, each used
\* once, and an entry with a greater value has a smaller rank.
C17_RanksDescending ==
    (\A i, j \in 1..Len(stats) : stats[i].code = stats[j].code => i = j) =>
        /\ { rankedMapGet(stats, stats[i].code) : i \in 1..Len(stats) }
              = { JNum(r) : r \in 1..Len(stats) }
        /\ \A i, j \in 1..Len(stats) :
              stats[i].value > stats[j].value =>
                  rankedMapGet(stats, stats[i].code).v < rankedMapGet(stats, stats[j].code).v

\* the tooltip of region 11 is shown with stats {26: 20, 11: 80}: rank 1
C17_Witness ==
    /\ stats = << [code |-> Code26, value |-> 20], [code |-> Code11, value |-> 80] >>
    /\ ~IsNullish(tooltip)
    /\ tooltip.code = Code11
    /\ rankedMapGet(stats, tooltip.code) = JNum(1)
    /\ rankedMapGet(stats, Code26) = JNum(2)

\* C18: labels are shown at ctprvn whenever the shapes are; at sig and emd
\* they are hidden at the unzoomed scale k = 1.
C18_DeepLabelsNeedZoom ==
    /\ (Rendered /\ level = "ctprvn") => LabelsShown
    /\ (level \in {"sig", "emd"} /\ zoomState.k = RInt(1)) => ~LabelsShown

\* C19: tooltip and hovered-region marker agree: after a move over a region
\* both carry its code, after a leave both are null, and the tooltip is
\* non-null exactly when the marker is.
C19_HoverStateAgrees ==
    /\ IsNullish(tooltip) <=> IsNullish(hoveredCode)
    /\ ~IsNullish(tooltip) => hoveredCode = JStr(tooltip.code)
    /\ event.type = "move" =>
          /\ ~IsNullish(tooltip)
          /\ tooltip.code = getFeatureCode(event.level, event.feature)
          /\ hoveredCode = JStr(getFeatureCode(event.level, event.feature))
    /\ event.type = "leave" => (IsNullish(tooltip) /\ IsNullish(hoveredCode))

\* the pointer moved from one region onto another with no leave in between
C19_Witness ==
    /\ event.type = "move"
    /\ ~IsNullish(event.from)
    /\ event.from # hoveredCode
    /\ tooltip.code = getFeatureCode(event.level, event.feature)

\* C20: in every render of the map view by the page the codes of the stats
\* passed are the non-empty codes of the features passed.
C20_StatsMatchFeatures ==
    \A r \in 1..Len(renders) :
        { renders[r].stats[i] : i \in 1..Len(renders[r].stats) }
          = { renders[r].features[i] : i \in 1..Len(renders[r].features) } \ { <<>> }

\* the entries of st whose code is the code of one of the features
MatchedEntries(lv, feats, st) ==
    SelectSeq(st, LAMBDA x : \E i \in 1..Len(feats) : getFeatureCode(lv, feats[i]) = x.code)

\* C21: two stats props that differ only in entries whose code matches no
\* feature give every displayed feature the same fill and the same rank.
C21_UnmatchedStatsInert ==
    Rendered =>
        \A st2 \in StatSets :
            MatchedEntries(level, Features, st2) = MatchedEntries(level, Features, stats) =>
                \A i \in 1..Len(Features) :
                    /\ Fill(level, st2, Features[i]) = Fill(level, stats, Features[i])
                    /\ rankedMapGet(st2, getFeatureCode(level, Features[i]))
                         = rankedMapGet(stats, getFeatureCode(level, Features[i]))

\* C22: no svg element that was taken out of the document keeps the listeners
\* of a zoom behaviour: they are released when the element is replaced.
C22_ListenersReleased == ~ZoomListenersOrphaned

\* C23: a displayed tooltip shows a region of the current feature list with
\* that region's value in the current stats.
C23_TooltipCurrent ==
    ~IsNullish(tooltip) =>
        \E i \in 1..Len(Features) :
            /\ getFeatureCode(level, Features[i]) = tooltip.code
            /\ FillValue(level, stats, Features[i]) = tooltip.value

\* C24: at sig and emd every feature passed to the map has a code that starts
\* with selectedCode, and without a selected code the list is empty; the
\* renders that follow a click pass only regions prefixed by the clicked code.
C24_FeaturesInScope ==
    /\ level \in {"sig", "emd"} =>
          IF Truthy(selectedCode)
          THEN \A i \in 1..Len(Features) :
                  StartsWith(getFeatureCode(level, Features[i]), selectedCode.v)
          ELSE Features = <<>>
    /\ (event.type = "click" /\ emitted # <<>>) =>
          \A r \in 1..Len(renders) : \A i \in 1..Len(renders[r].features) :
              StartsWith(renders[r].features[i], emitted[1].code)

\* a click on province 11 has led to its two municipalities, 26110 left out
C24_Witness ==
    /\ event.type = "click" /\ event.level = "ctprvn"
    /\ level = "sig"
    /\ selectedCode = JStr(Code11)
    /\ Len(Features) = 2
    /\ Len(renders) = 2

ZoomEvents == {"zoom", "wheel", "drag"}

\* C25: a drag, wheel or zoom-button input leaves width, height and features,
\* and with them projection, path and label data, as they were.
C25_ZoomKeepsProjection ==
    [][ event'.type \in ZoomEvents =>
          /\ width' = width /\ height' = height
          /\ Features' = Features
          /\ projection(width, height, Features)' = projection(width, height, Features)
          /\ path(width, height, Features)' = path(width, height, Features)
          /\ labelData(level, width, height, Features)'
               = labelData(level, width, height, Features) ]_vars

\* a drag has moved the rendered map away from the identity transform
C25_Witness ==
    /\ event.type = "drag"
    /\ Rendered
    /\ zoomState # zoomIdentity

\* features to resolve: every combination of absent, empty string, string and
\* number
PropInputs == { JNull, JStr(<<>>), JStr(Code11), JNum(26) }
FeatureInputs ==
    [code : PropInputs, CTPRVN_CD : PropInputs, SIG_CD : PropInputs, EMD_CD : PropInputs]

\* the string form of the first non-null property in the order code,
\* CTPRVN_CD, SIG_CD, EMD_CD, or the empty string
FirstNonNull(f) ==
    IF ~IsNullish(f.code) THEN JsString(f.code)
    ELSE IF ~IsNullish(f.CTPRVN_CD) THEN JsString(f.CTPRVN_CD)
    ELSE IF ~IsNullish(f.SIG_CD) THEN JsString(f.SIG_CD)
    ELSE IF ~IsNullish(f.EMD_CD) THEN JsString(f.EMD_CD)
    ELSE <<>>

\* C26: at every tier getFeatureCode returns the string form of the first
\* non-null property of the priority list, the empty string without one, and
\* the map view, the page and the boundary provider resolve the same code.
C26_CodePriority ==
    \A f \in FeatureInputs : \A lv \in Levels :
        /\ getFeatureCode(lv, f) = FirstNonNull(f)
        /\ pageGetFeatureCode(lv, f) = getFeatureCode(lv, f)
        /\ boundariesGetFeatureCode(f) = getFeatureCode(lv, f)

\* a click on the province that has only the numeric CTPRVN_CD 26 emitted "26"
C26_Witness ==
    /\ event.type = "click"
    /\ IsNullish(event.feature.code)
    /\ emitted = << [level |-> "sig", code |-> Code26] >>

\* C27: with only URLs the page pushed to restore, selectedCode is null
\* exactly when level is ctprvn.
C27_CodeNullIffRoot == IsNullish(selectedCode) <=> level = "ctprvn"

\* a popstate has restored the pushed entry of level sig with its code
C27_Witness ==
    /\ event.type = "popstate"
    /\ level = "sig"
    /\ selectedCode = JStr(Code11)

\* C28: going back from emd with go-up or the sig breadcrumb leads to sig
\* scoped to the province: the selected code is the code of a province.
C28_BackToProvinceScope ==
    [][ (level = "emd" /\ event'.type \in {"goUp", "breadcrumb"} /\ level' = "sig") =>
          /\ \E i \in 1..Len(ctprvnJson) :
                selectedCode' = JStr(getFeatureCode("ctprvn", ctprvnJson[i]))
          /\ Truthy(selectedCode') ]_vars

\* C29: whenever the svg is rendered the zoom behaviour is bound to it.
C29_ZoomBoundWhenRendered == Rendered => ZoomBound

\* C30: handling a popstate event pushes no history entry: the entries stay
\* as they are and the current one is the restored one.
C30_PopstatePushesNothing ==
    [][ event'.type = "popstate" =>
          (history' = history /\ histIdx' = event'.to) ]_vars
=============================================================================
